---- MODULE Spec2Model ----
(***************************************************************************)
(* Model of src/js/app.js: the "quote of the day" page.                    *)
(*                                                                         *)
(* Strings are sequences of UTF-16 code units (what charCodeAt returns).   *)
(* A 32-bit integer (the value of `hash` after `hash |= 0`) is the record  *)
(* [hi, lo] of the two 16-bit halves of its two's-complement bit pattern;  *)
(* a JS Number that may leave the int32 range (the result of Math.abs) is  *)
(* the sign-magnitude record [neg, hi, lo], magnitude hi * 2^16 + lo.      *)
(* An optional value (undefined in the code) is a sequence of length 0/1.  *)
(***************************************************************************)
EXTENDS Integers, Sequences, FiniteSets, TLC

VARIABLES
  \* ---- hashString / getDailyIndex applied to drawn inputs
  hStr,          \* the string handed to hashString
  hCount,        \* the collection size handed to the daily selector
  hOut,          \* <<>> before the call, <<[hash, idx]>> after it
  \* ---- two independent page instances computing their daily index
  pgClock,       \* page -> what `new Date()` returns on that page
  pgQuotes,      \* page -> window.QUOTES_DATA of that page
  pgIndex,       \* page -> <<>> before init, <<getDailyIndex()>> after
  \* ---- one page: src/js/app.js lines 4-10 and the browser's queues
  quotes,        \* var quotes (line 9)
  isDaily,       \* var isDaily (line 10)
  dailyLabel,    \* dailyLabel.textContent
  quoteText,     \* quoteText.textContent
  quoteCredit,   \* quoteCredit.textContent
  textVisible,   \* quoteText.classList contains "visible"
  creditVisible, \* quoteCredit.classList contains "visible"
  timers,        \* pending setTimeout callbacks, oldest first (each holds its quote)
  frames,        \* number of pending requestAnimationFrame callbacks
  clickBound,    \* shuffleBtn has the click listener (line 99)
  pc,            \* page: "start" | "idle" | "draw"; a single call: "call" | "loop" | "done"
  rnd,           \* getRandomIndex's activation: argument, locals, return value
  called,        \* which selectors have been invoked so far
  selected,      \* the quote displayQuote scheduled last (<<>> before the first)
  threw          \* an exception escaped a handler or callback

hashVars == <<hStr, hCount, hOut>>
pagesVars == <<pgClock, pgQuotes, pgIndex>>
domVars == <<quoteText, quoteCredit, textVisible, creditVisible>>
modeVars == <<isDaily, dailyLabel>>
queueVars == <<timers, frames>>
pageVars == <<quotes, isDaily, dailyLabel, quoteText, quoteCredit, textVisible,
              creditVisible, timers, frames, clickBound, pc, rnd, called, selected,
              threw>>
vars == <<hashVars, pagesVars, pageVars>>

----------------------------------------------------------------------------
(* Bounds of the model *)

\* largest collection drawn
MaxQuotes == 2
\* most callbacks (timers plus animation frames) pending at once
MaxPending == 2
\* largest count handed to the daily selector as a pure function
MaxCount == 7
\* the clock's years are FirstYear .. FirstYear + YearSpan
YearSpan == 1

----------------------------------------------------------------------------
(* Numbers *)

\* 2^16: one half of a 32-bit pattern
W16 == 65536
\* 2^15: the sign bit of the high half
SignBit == 32768

Zero32 == [hi |-> 0, lo |-> 0]

\* x << 5 on an int32
Shl5(h) ==
  LET l == h.lo * 32
  IN [hi |-> (h.hi * 32 + (l \div W16)) % W16, lo |-> l % W16]

\* (t - s + c) | 0 : the exact sum, then ToInt32 (reduction modulo 2^32)
ToInt32Sum(t, s, c) ==
  LET l == t.lo - s.lo + c
  IN [hi |-> (t.hi - s.hi + (l \div W16)) % W16, lo |-> l % W16]

IsNegative32(h) == h.hi >= SignBit

\* an int32 as a JS Number
Int32ToNumber(h) ==
  IF IsNegative32(h)
  THEN [neg |-> TRUE,
        hi |-> W16 - h.hi - (IF h.lo = 0 THEN 0 ELSE 1),
        lo |-> (W16 - h.lo) % W16]
  ELSE [neg |-> FALSE, hi |-> h.hi, lo |-> h.lo]

\* abs on a 32-bit register: the minimum value has no positive counterpart and stays negative
MathAbsWrapping(x) ==
  IF x.neg /\ x.hi = SignBit /\ x.lo = 0 THEN x ELSE [x EXCEPT !.neg = FALSE]

\* Math.abs on a JS Number (a double: 2^31 is representable)
MathAbs(x) == [x EXCEPT !.neg = FALSE]

\* x % n for a JS Number x and an integer n > 0: the sign of the dividend
JsRem(x, n) ==
  LET m == (((x.hi % n) * (W16 % n)) + (x.lo % n)) % n
  IN IF x.neg THEN 0 - m ELSE m

----------------------------------------------------------------------------
(* hashString, todayString, getDailyIndex *)

\* line 20 shifting by 4: hash * 15 + char
hashStepShift4(hash, char) ==
  LET l == hash.lo * 16
      t == [hi |-> (hash.hi * 16 + (l \div W16)) % W16, lo |-> l % W16]
  IN ToInt32Sum(t, hash, char)

\* lines 20-21: hash = (hash << 5) - hash + char; hash |= 0
hashStep(hash, char) == ToInt32Sum(Shl5(hash), hash, char)

RECURSIVE hashLoop(_, _, _)
\* lines 18-22, the for loop from index i (0-based)
hashLoop(str, i, hash) ==
  IF i < Len(str) THEN hashLoop(str, i + 1, hashStep(hash, str[i + 1])) ELSE hash

\* hashString returning the signed hash (no Math.abs)
hashStringSigned(str) == Int32ToNumber(hashLoop(str, 0, Zero32))

\* hashString whose abs wraps like a 32-bit register
hashStringWrapAbs(str) == MathAbsWrapping(Int32ToNumber(hashLoop(str, 0, Zero32)))

\* lines 16-24
hashString(str) == MathAbs(Int32ToNumber(hashLoop(str, 0, Zero32)))

RECURSIVE NumberToString(_)
\* String(n) / string concatenation of an integer n
NumberToString(n) ==
  IF n < 0 THEN <<45>> \o NumberToString(0 - n)
  ELSE IF n < 10 THEN <<48 + n>>
  ELSE NumberToString(n \div 10) \o <<48 + (n % 10)>>

\* s.padStart(2, "0")
PadStart2(s) == IF Len(s) >= 2 THEN s ELSE IF Len(s) = 1 THEN <<48>> \o s ELSE <<48, 48>>

\* lines 29-34; d is the Date: fullYear, month (0-based), date
todayString(d) ==
  NumberToString(d.fullYear) \o <<45>> \o PadStart2(NumberToString(d.month + 1))
    \o <<45>> \o PadStart2(NumberToString(d.date))

\* line 40 as a function of the date key and the collection size (count > 0)
selectDaily(key, count) == JsRem(hashString(key), count)

\* a daily index that also mixes in the first quote's text
getDailyIndexOfContent(now, qs) ==
  JsRem(hashString(todayString(now) \o qs[1].text), Len(qs))

\* lines 39-41; now is what `new Date()` returns, qs is `quotes`
getDailyIndex(now, qs) == selectDaily(todayString(now), Len(qs))

----------------------------------------------------------------------------
(* The clock and the input strings *)

FirstYear == 2024

IsLeap(y) == (y % 4 = 0 /\ y % 100 # 0) \/ y % 400 = 0

\* days of month m (0-based, as getUTCMonth counts) of year y
DaysInMonth(y, m) ==
  IF m = 1 THEN (IF IsLeap(y) THEN 29 ELSE 28)
  ELSE IF m \in {3, 5, 8, 10} THEN 30 ELSE 31

\* the values `new Date()` can take within the modelled years
Dates ==
  UNION {UNION {{[fullYear |-> y, month |-> m, date |-> d] : d \in 1..DaysInMonth(y, m)}
                : m \in 0..11} : y \in FirstYear..(FirstYear + YearSpan)}

\* a few days for the two-page comparison: one- and two-digit months and days
SampleDates ==
  {d \in Dates : /\ d.fullYear = FirstYear
                 /\ \/ d.month = 0 /\ d.date \in {1, 15}
                    \/ d.month = 11 /\ d.date = 31}

\* "GydZG_": a string whose 32-bit hash is exactly -2^31
MinHashString == <<71, 121, 100, 90, 71, 95>>

\* strings other than date keys: "", "a", "zzzzzz", and the minimum-hash string
OtherStrings == {<<>>, <<97>>, <<122, 122, 122, 122, 122, 122>>, MinHashString}

HashInputs == {todayString(d) : d \in Dates} \cup OtherStrings

----------------------------------------------------------------------------
(* Reference computation of the daily selector: hash = hash * 31 + code,   *)
(* wrapped to 32 bits, absolute value, modulo count.                       *)

RefStep(h, c) ==
  LET l == 31 * h.lo + c
  IN [hi |-> (31 * h.hi + (l \div W16)) % W16, lo |-> l % W16]

RECURSIVE RefWrapped(_)
\* the wrapped hash of str, as a 32-bit pattern
RefWrapped(str) ==
  IF str = <<>> THEN Zero32
  ELSE RefStep(RefWrapped(SubSeq(str, 1, Len(str) - 1)), str[Len(str)])

\* |v| for the signed reading v of pattern h, as [hi, lo] of the magnitude
RefMagnitude(h) ==
  IF h.hi < SignBit THEN h
  ELSE IF h.lo = 0 THEN [hi |-> W16 - h.hi, lo |-> 0]
  ELSE [hi |-> W16 - 1 - h.hi, lo |-> W16 - h.lo]

RefSelectDaily(str, count) ==
  LET a == RefMagnitude(RefWrapped(str))
  IN ((a.hi % count) * (W16 % count) + a.lo) % count

----------------------------------------------------------------------------
(* Quotes and collections *)

\* "a", "b", "c"
TextA == <<97>>
TextB == <<98>>
TextC == <<99>>
\* "Single" (line 72)
Single == <<83, 105, 110, 103, 108, 101>>

\* a Quote record; album is optional: <<>> when absent, <<string>> when present
MkQuote(text, album) == [text |-> text, song |-> <<83>>, artist |-> <<65>>, album |-> album]

\* the quotes collections are drawn from: two texts, every kind of album
\* (absent, "Single", "X", and the empty string)
QuoteUniverse ==
  {MkQuote(TextA, <<>>), MkQuote(TextB, <<Single>>),
   MkQuote(TextA, <<(<<88>>)>>), MkQuote(TextB, <<(<<>>)>>)}

\* window.QUOTES_DATA || [] : every sequence of at most MaxQuotes quotes
Collections == UNION {[1..n -> QuoteUniverse] : n \in 0..MaxQuotes}

NonEmptyCollections == {qs \in Collections : Len(qs) > 0}

\* quotes[index]: <<quote>>, or <<>> for undefined
QuoteAt(qs, index) == IF index \in 0..(Len(qs) - 1) THEN <<qs[index + 1]>> ELSE <<>>

----------------------------------------------------------------------------
(* Initial values of the three groups of variables *)

HashIdle == hStr = <<>> /\ hCount = 1 /\ hOut = <<>>

Pages == {"A", "B"}

PagesIdle ==
  /\ pgClock = [p \in Pages |-> [fullYear |-> FirstYear, month |-> 0, date |-> 1]]
  /\ pgQuotes = [p \in Pages |-> <<>>]
  /\ pgIndex = [p \in Pages |-> <<>>]

\* no activation of getRandomIndex
NoCall ==
  [currentText |-> <<>>, idx |-> <<>>, attempts |-> 0, running |-> FALSE, ret |-> <<>>,
   error |-> FALSE]

PageIdle ==
  /\ quotes = <<>>
  /\ isDaily = TRUE
  /\ dailyLabel = "daily"
  /\ quoteText = <<>>
  /\ quoteCredit = <<>>
  /\ textVisible = FALSE
  /\ creditVisible = FALSE
  /\ timers = <<>>
  /\ frames = 0
  /\ clickBound = FALSE
  /\ pc = "start"
  /\ rnd = NoCall
  /\ called = [daily |-> FALSE, random |-> FALSE]
  /\ selected = <<>>
  /\ threw = FALSE

----------------------------------------------------------------------------
(* SpecHash: hashString and the daily selector as pure functions *)

InitHash ==
  /\ hStr \in HashInputs
  /\ hCount \in 1..MaxCount
  /\ hOut = <<>>
  /\ PagesIdle
  /\ PageIdle

\* one call: hashString(hStr), then % hCount as on line 40
HashCall ==
  /\ hOut = <<>>
  /\ hOut' = <<[hash |-> hashString(hStr), idx |-> selectDaily(hStr, hCount)]>>
  /\ UNCHANGED <<hStr, hCount, pagesVars, pageVars>>

NextHash == HashCall

SpecHash == InitHash /\ [][NextHash]_vars

----------------------------------------------------------------------------
(* SpecPages: two independent page instances run their init on non-empty   *)
(* collections (lines 97-98): each computes getDailyIndex() from its own   *)
(* clock and its own collection.                                           *)

InitPages ==
  /\ pgClock \in [Pages -> SampleDates]
  /\ pgQuotes \in [Pages -> NonEmptyCollections]
  /\ pgIndex = [p \in Pages |-> <<>>]
  /\ HashIdle
  /\ PageIdle

PageInit(p) ==
  /\ pgIndex[p] = <<>>
  /\ Len(pgQuotes[p]) # 0
  /\ pgIndex' = [pgIndex EXCEPT ![p] = <<getDailyIndex(pgClock[p], pgQuotes[p])>>]
  /\ UNCHANGED <<pgClock, pgQuotes, hashVars, pageVars>>

NextPages == \E p \in Pages : PageInit(p)

SpecPages == InitPages /\ [][NextPages]_vars

----------------------------------------------------------------------------
(* Strings of the page *)

\* U+201C, U+201D (line 69) and U+2014 (line 70)
LeftQuote == 8220
RightQuote == 8221
EmDash == 8212

\* "No quotes available yet." (line 95)
Fallback ==
  <<78, 111, 32, 113, 117, 111, 116, 101, 115, 32, 97, 118, 97, 105, 108, 97, 98,
    108, 101, 32, 121, 101, 116, 46>>

\* s.slice(1, -1)
Slice1(s) == IF Len(s) <= 2 THEN <<>> ELSE SubSeq(s, 2, Len(s) - 1)

\* line 69
RenderText(quote) == <<LeftQuote>> \o quote.text \o <<RightQuote>>

\* lines 70-74 without the "Single" test: every truthy album is appended
RenderCreditAnyAlbum(quote) ==
  LET base == quote.song \o <<32, EmDash, 32>> \o quote.artist
  IN IF quote.album # <<>> /\ quote.album[1] # <<>>
     THEN base \o <<32, 40>> \o quote.album[1] \o <<41>>
     ELSE base

\* lines 70-74: the album is appended when truthy (present, non-empty) and not "Single"
RenderCredit(quote) ==
  LET base == quote.song \o <<32, EmDash, 32>> \o quote.artist
  IN IF quote.album # <<>> /\ quote.album[1] # <<>> /\ quote.album[1] # Single
     THEN base \o <<32, 40>> \o quote.album[1] \o <<41>>
     ELSE base

----------------------------------------------------------------------------
(* getRandomIndex (lines 46-55), one draw per step *)

\* line 53: the attempt cap
MaxAttempts == 20

\* Math.round in place of Math.floor: the draw can be n
DrawRangeRounded(n) == 0..n

\* line 51: Math.floor(Math.random() * n), Math.random() in [0, 1)
DrawRange(n) == 0..(n - 1)

\* line 47 with `<` for `<=`
RandomEnterStrict(text) ==
  IF Len(quotes) < 1
  THEN [NoCall EXCEPT !.currentText = text, !.ret = <<0>>]
  ELSE [NoCall EXCEPT !.currentText = text, !.running = TRUE]

\* lines 46-49: the call with its argument; returns 0 at once for length <= 1
RandomEnter(text) ==
  IF Len(quotes) <= 1
  THEN [NoCall EXCEPT !.currentText = text, !.ret = <<0>>]
  ELSE [NoCall EXCEPT !.currentText = text, !.running = TRUE]

\* the loop with `<=` for `<` in the attempt cap: a 21st draw is possible
RandomDrawOneMore(r, d) ==
  LET quote == QuoteAt(quotes, d)
      a == r.attempts + 1
  IN IF quote = <<>>
     THEN [r EXCEPT !.idx = <<d>>, !.attempts = a, !.running = FALSE, !.error = TRUE]
     ELSE LET again == quote[1].text = r.currentText /\ a <= MaxAttempts
          IN [r EXCEPT !.idx = <<d>>, !.attempts = a, !.running = again,
                       !.ret = IF again THEN <<>> ELSE <<d>>]

\* the loop with `!==` for `===`: it repeats while the text differs
RandomDrawInverted(r, d) ==
  LET quote == QuoteAt(quotes, d)
      a == r.attempts + 1
  IN IF quote = <<>>
     THEN [r EXCEPT !.idx = <<d>>, !.attempts = a, !.running = FALSE, !.error = TRUE]
     ELSE LET again == quote[1].text # r.currentText /\ a < MaxAttempts
          IN [r EXCEPT !.idx = <<d>>, !.attempts = a, !.running = again,
                       !.ret = IF again THEN <<>> ELSE <<d>>]

\* lines 50-54: one iteration of the do-while with draw d, and the return on exit;
\* reading .text of an undefined quote throws
RandomDraw(r, d) ==
  LET quote == QuoteAt(quotes, d)
      a == r.attempts + 1
  IN IF quote = <<>>
     THEN [r EXCEPT !.idx = <<d>>, !.attempts = a, !.running = FALSE, !.error = TRUE]
     ELSE LET again == quote[1].text = r.currentText /\ a < MaxAttempts
          IN [r EXCEPT !.idx = <<d>>, !.attempts = a, !.running = again,
                       !.ret = IF again THEN <<>> ELSE <<d>>]

----------------------------------------------------------------------------
(* Spec: the page. A handler runs to completion: while getRandomIndex is   *)
(* drawing (pc = "draw") no other event or callback is taken.              *)

Pending == Len(timers) + frames

Init ==
  /\ quotes \in Collections
  /\ isDaily = TRUE
  /\ dailyLabel = "daily"
  /\ quoteText = <<>>
  /\ quoteCredit = <<>>
  /\ textVisible = FALSE
  /\ creditVisible = FALSE
  /\ timers = <<>>
  /\ frames = 0
  /\ clickBound = FALSE
  /\ pc = "start"
  /\ rnd = NoCall
  /\ called = [daily |-> FALSE, random |-> FALSE]
  /\ selected = <<>>
  /\ threw = FALSE
  /\ HashIdle
  /\ PagesIdle

\* displayQuote without the check of line 62
displayQuoteUnchecked(index) ==
  /\ textVisible' = FALSE
  /\ creditVisible' = FALSE
  /\ timers' = Append(timers, QuoteAt(quotes, index))
  /\ selected' = QuoteAt(quotes, index)
  /\ UNCHANGED <<quoteText, quoteCredit, frames>>

\* lines 60-81, up to the scheduling of the timer
displayQuote(index) ==
  LET quote == QuoteAt(quotes, index)
  IN IF quote = <<>>
     THEN UNCHANGED <<domVars, queueVars, selected>>
     ELSE /\ textVisible' = FALSE
          /\ creditVisible' = FALSE
          /\ timers' = Append(timers, quote)
          /\ selected' = quote
          /\ UNCHANGED <<quoteText, quoteCredit, frames>>

\* lines 93-100 (the keydown listener of lines 103-108 is installed in both branches)
Load ==
  /\ pc = "start"
  /\ pc' = "idle"
  /\ IF Len(quotes) = 0
     THEN /\ quoteText' = Fallback
          /\ textVisible' = TRUE
          /\ UNCHANGED <<quoteCredit, creditVisible, queueVars, clickBound, called, selected>>
     ELSE /\ \E now \in Dates : displayQuote(getDailyIndex(now, quotes))
          /\ clickBound' = TRUE
          /\ called' = [called EXCEPT !.daily = TRUE]
  /\ UNCHANGED <<quotes, modeVars, rnd, threw, hashVars, pagesVars>>

\* onShuffle without line 88: the label is left as it was
onShuffleKeepsLabel ==
  /\ isDaily' = FALSE
  /\ UNCHANGED dailyLabel
  /\ called' = [called EXCEPT !.random = TRUE]
  /\ LET r == RandomEnter(Slice1(quoteText))
     IN IF r.running
        THEN /\ rnd' = r
             /\ pc' = "draw"
             /\ UNCHANGED <<domVars, queueVars, selected>>
        ELSE /\ displayQuote(r.ret[1])
             /\ rnd' = NoCall
             /\ pc' = "idle"
  /\ UNCHANGED <<quotes, clickBound, threw, hashVars, pagesVars>>

\* lines 86-91, up to the first draw (or to the end when no draw is made)
onShuffle ==
  /\ isDaily' = FALSE
  /\ dailyLabel' = "random"
  /\ called' = [called EXCEPT !.random = TRUE]
  /\ LET r == RandomEnter(Slice1(quoteText))
     IN IF r.running
        THEN /\ rnd' = r
             /\ pc' = "draw"
             /\ UNCHANGED <<domVars, queueVars, selected>>
        ELSE /\ displayQuote(r.ret[1])
             /\ rnd' = NoCall
             /\ pc' = "idle"
  /\ UNCHANGED <<quotes, clickBound, threw, hashVars, pagesVars>>

\* line 99: a click on the shuffle button
Click ==
  /\ pc = "idle"
  /\ clickBound
  /\ Pending < MaxPending
  /\ onShuffle

Keys == {" ", "a"}
Targets == {"body", "button"}

\* line 104 without the test of e.target: space shuffles wherever the focus is
KeyDownAnyTarget(key, target) ==
  /\ pc = "idle"
  /\ Pending < MaxPending
  /\ IF key = " " THEN onShuffle ELSE UNCHANGED vars

\* lines 103-108
KeyDown(key, target) ==
  /\ pc = "idle"
  /\ Pending < MaxPending
  /\ IF key = " " /\ target = "body" THEN onShuffle ELSE UNCHANGED vars

\* the rest of onShuffle: lines 50-54 once more, then displayQuote on exit
ShuffleDraw ==
  /\ pc = "draw"
  /\ \E d \in DrawRange(Len(quotes)) :
       LET r == RandomDraw(rnd, d)
       IN IF r.error
          THEN /\ threw' = TRUE
               /\ rnd' = NoCall
               /\ pc' = "idle"
               /\ UNCHANGED <<domVars, queueVars, selected>>
          ELSE IF r.running
          THEN /\ rnd' = r
               /\ UNCHANGED <<pc, threw, domVars, queueVars, selected>>
          ELSE /\ displayQuote(r.ret[1])
               /\ rnd' = NoCall
               /\ pc' = "idle"
               /\ UNCHANGED threw
  /\ UNCHANGED <<quotes, modeVars, clickBound, called, hashVars, pagesVars>>

\* timers firing newest first
TimerFireNewestFirst ==
  /\ pc = "idle"
  /\ timers # <<>>
  /\ timers' = SubSeq(timers, 1, Len(timers) - 1)
  /\ LET quote == timers[Len(timers)]
     IN IF quote = <<>>
        THEN /\ threw' = TRUE
             /\ UNCHANGED <<domVars, frames>>
        ELSE /\ quoteText' = RenderText(quote[1])
             /\ quoteCredit' = RenderCredit(quote[1])
             /\ frames' = frames + 1
             /\ UNCHANGED <<textVisible, creditVisible, threw>>
  /\ UNCHANGED <<quotes, modeVars, clickBound, pc, rnd, called, selected, hashVars,
                 pagesVars>>

\* lines 68-80: the oldest timer fires (all timers have the same delay)
TimerFire ==
  /\ pc = "idle"
  /\ timers # <<>>
  /\ timers' = Tail(timers)
  /\ LET quote == Head(timers)
     IN IF quote = <<>>
        THEN /\ threw' = TRUE
             /\ UNCHANGED <<domVars, frames>>
        ELSE /\ quoteText' = RenderText(quote[1])
             /\ quoteCredit' = RenderCredit(quote[1])
             /\ frames' = frames + 1
             /\ UNCHANGED <<textVisible, creditVisible, threw>>
  /\ UNCHANGED <<quotes, modeVars, clickBound, pc, rnd, called, selected, hashVars,
                 pagesVars>>

\* the frame callback without line 78: only the text becomes visible
FrameFireTextOnly ==
  /\ pc = "idle"
  /\ frames > 0
  /\ frames' = frames - 1
  /\ textVisible' = TRUE
  /\ UNCHANGED <<creditVisible, quoteText, quoteCredit, timers, quotes, modeVars,
                 clickBound, pc, rnd, called, selected, threw, hashVars, pagesVars>>

\* lines 76-79: an animation frame callback fires
FrameFire ==
  /\ pc = "idle"
  /\ frames > 0
  /\ frames' = frames - 1
  /\ textVisible' = TRUE
  /\ creditVisible' = TRUE
  /\ UNCHANGED <<quoteText, quoteCredit, timers, quotes, modeVars, clickBound, pc, rnd,
                 called, selected, threw, hashVars, pagesVars>>

Next ==
  \/ Load
  \/ Click
  \/ \E key \in Keys, target \in Targets : KeyDown(key, target)
  \/ ShuffleDraw
  \/ TimerFire
  \/ FrameFire

Spec == Init /\ [][Next]_vars

\* a handler runs to its end, and the browser fires every scheduled timer and
\* animation frame callback
SpecFair ==
  /\ Spec
  /\ WF_vars(ShuffleDraw)
  /\ WF_vars(TimerFire)
  /\ WF_vars(FrameFire)

----------------------------------------------------------------------------
(* SpecRandom: getRandomIndex called once on a drawn collection and text *)

\* "", "a", "b", "c"
CurrentTexts == {<<>>, TextA, TextB, TextC}

InitRandom ==
  /\ quotes \in Collections
  /\ rnd \in {[NoCall EXCEPT !.currentText = t] : t \in CurrentTexts}
  /\ pc = "call"
  /\ isDaily = TRUE
  /\ dailyLabel = "daily"
  /\ quoteText = <<>>
  /\ quoteCredit = <<>>
  /\ textVisible = FALSE
  /\ creditVisible = FALSE
  /\ timers = <<>>
  /\ frames = 0
  /\ clickBound = FALSE
  /\ called = [daily |-> FALSE, random |-> FALSE]
  /\ selected = <<>>
  /\ threw = FALSE
  /\ HashIdle
  /\ PagesIdle

\* getRandomIndex also switching the mode (lines 87-88 moved into the selector)
RandomCallSetsMode ==
  /\ pc = "call"
  /\ rnd' = RandomEnter(rnd.currentText)
  /\ pc' = IF rnd'.running THEN "loop" ELSE "done"
  /\ called' = [called EXCEPT !.random = TRUE]
  /\ isDaily' = FALSE
  /\ dailyLabel' = "random"
  /\ UNCHANGED <<quotes, domVars, queueVars, clickBound, selected, threw, hashVars,
                 pagesVars>>

\* line 46-49: the call
RandomCall ==
  /\ pc = "call"
  /\ rnd' = RandomEnter(rnd.currentText)
  /\ pc' = IF rnd'.running THEN "loop" ELSE "done"
  /\ called' = [called EXCEPT !.random = TRUE]
  /\ UNCHANGED <<quotes, modeVars, domVars, queueVars, clickBound, selected, threw,
                 hashVars, pagesVars>>

\* lines 50-54: one iteration
RandomLoop ==
  /\ pc = "loop"
  /\ \E d \in DrawRange(Len(quotes)) : rnd' = RandomDraw(rnd, d)
  /\ pc' = IF rnd'.running THEN "loop" ELSE "done"
  /\ threw' = rnd'.error
  /\ UNCHANGED <<quotes, modeVars, domVars, queueVars, clickBound, called, selected,
                 hashVars, pagesVars>>

NextRandom == RandomCall \/ RandomLoop

SpecRandom == InitRandom /\ [][NextRandom]_vars

----------------------------------------------------------------------------
(* SpecSelectors: both selectors called on a drawn collection: the daily   *)
(* selector (when the collection is not empty) and the random selector.    *)

\* lines 39-41: one call of getDailyIndex(), its result kept in hOut
DailyCall ==
  /\ hOut = <<>>
  /\ Len(quotes) # 0
  /\ \E now \in SampleDates :
       /\ hStr' = todayString(now)
       /\ hOut' = <<[hash |-> hashString(todayString(now)),
                    idx |-> getDailyIndex(now, quotes)]>>
  /\ hCount' = Len(quotes)
  /\ called' = [called EXCEPT !.daily = TRUE]
  /\ UNCHANGED <<quotes, modeVars, domVars, queueVars, clickBound, pc, rnd, selected,
                 threw, pagesVars>>

NextSelectors == DailyCall \/ RandomCall \/ RandomLoop

SpecSelectors == InitRandom /\ [][NextSelectors]_vars

\* the loop is never abandoned: the call runs synchronously to its return
SpecRandomFair == SpecRandom /\ WF_vars(NextRandom)

----------------------------------------------------------------------------
(* Properties *)

DateKeys == {todayString(d) : d \in Dates}

\* C1: for a non-empty collection of size count and a valid date key (and any
\* other string), the daily selector returns an index i with 0 <= i < count.
DailyIndexInRange ==
  hOut # <<>> => hOut[1].idx \in 0..(hCount - 1)

\* a date key whose wrapped hash is negative was selected from more than one quote
DailyIndexInRangeWitness ==
  /\ hOut # <<>>
  /\ hStr \in DateKeys
  /\ IsNegative32(RefWrapped(hStr))
  /\ hCount = 3
  /\ hOut[1].idx = 2

\* C2: the daily selector equals the reference computation: hash = hash * 31 + code
\* wrapped to 32 bits, then the absolute value, then modulo count.
DailyMatchesReference ==
  hOut # <<>> =>
    /\ hOut[1].idx = RefSelectDaily(hStr, hCount)
    /\ hOut[1].hash = [neg |-> FALSE, hi |-> RefMagnitude(RefWrapped(hStr)).hi,
                       lo |-> RefMagnitude(RefWrapped(hStr)).lo]

\* "2024-01-15" with count 7: the hash has wrapped, and the index is 1
DailyMatchesReferenceWitness ==
  /\ hOut # <<>>
  /\ hStr = todayString([fullYear |-> 2024, month |-> 0, date |-> 15])
  /\ hCount = 7
  /\ hOut[1].hash.hi > 0
  /\ hOut[1].idx = 1

\* C3: the daily index depends on the date key and the count alone: two page
\* instances with the same date key and the same count compute the same index,
\* whatever their collections hold.
DailyDeterministic ==
  \A p, q \in Pages :
    (/\ pgIndex[p] # <<>>
     /\ pgIndex[q] # <<>>
     /\ todayString(pgClock[p]) = todayString(pgClock[q])
     /\ Len(pgQuotes[p]) = Len(pgQuotes[q]))
    => pgIndex[p] = pgIndex[q]

\* both pages have run init on the same day with collections of the same size
\* and different quotes
DailyDeterministicWitness ==
  /\ pgIndex["A"] # <<>>
  /\ pgIndex["B"] # <<>>
  /\ pgClock["A"] = pgClock["B"]
  /\ Len(pgQuotes["A"]) = 2
  /\ Len(pgQuotes["B"]) = 2
  /\ pgQuotes["A"][1].text # pgQuotes["B"][1].text
  /\ pgQuotes["A"][2] # pgQuotes["B"][2]

\* C4: when the wrapped hash is exactly -2^31, the hash step yields 2^31 as a
\* non-negative number and the index is still in [0, count).
MinHashNonNegative ==
  (hOut # <<>> /\ RefWrapped(hStr) = [hi |-> SignBit, lo |-> 0]) =>
    /\ hOut[1].hash = [neg |-> FALSE, hi |-> SignBit, lo |-> 0]
    /\ hOut[1].idx \in 0..(hCount - 1)

\* the minimum-hash string was hashed and reduced modulo 3 (2^31 mod 3 = 2)
MinHashNonNegativeWitness ==
  /\ hOut # <<>>
  /\ hStr = MinHashString
  /\ RefWrapped(hStr) = [hi |-> SignBit, lo |-> 0]
  /\ hCount = 3
  /\ hOut[1].idx = 2

\* C5: on an empty collection neither selector is ever called.
EmptyNeverCallsSelectors ==
  quotes = <<>> => (~called.daily /\ ~called.random)

\* C6: on an empty collection, from load on, the text region shows the fallback
\* message and is marked visible, no callback is pending, and nothing has thrown.
EmptyShowsFallback ==
  (quotes = <<>> /\ pc # "start") =>
    /\ quoteText = Fallback
    /\ textVisible
    /\ timers = <<>>
    /\ frames = 0
    /\ ~threw

\* the empty page has handled a space key
EmptyShowsFallbackWitness ==
  /\ quotes = <<>>
  /\ pc = "idle"
  /\ called.random
  /\ dailyLabel = "random"
  /\ quoteText = Fallback

\* an event whose handler hands displayQuote an index with no quote
MissingQuoteEvent ==
  /\ pc = "idle"
  /\ LET r == RandomEnter(Slice1(quoteText))
     IN ~r.running /\ QuoteAt(quotes, r.ret[1]) = <<>>
  /\ onShuffle

\* C7: handling an event whose quote is missing changes no state: text, credit,
\* visibility, mode flag, mode label and pending callbacks stay as they were,
\* and nothing throws.
MissingQuoteChangesNothing ==
  [][MissingQuoteEvent => UNCHANGED <<domVars, modeVars, queueVars, threw>>]_vars

\* C8: for a collection of size <= 1 the random selector returns 0 without
\* drawing: the loop is never entered, no draw is counted, the result is 0.
SmallCollectionReturnsZero ==
  Len(quotes) <= 1 =>
    /\ pc # "loop"
    /\ rnd.attempts = 0
    /\ rnd.idx = <<>>
    /\ pc = "done" => rnd.ret = <<0>>

\* the selector returned on a single quote whose text is the current text
SmallCollectionReturnsZeroWitness ==
  /\ pc = "done"
  /\ Len(quotes) = 1
  /\ quotes[1].text = rnd.currentText
  /\ rnd.ret = <<0>>

\* C9: for a collection of size count > 1 the random selector returns, without
\* throwing, an index i with 0 <= i < count.
RandomIndexInRange ==
  (Len(quotes) > 1 /\ pc = "done") =>
    /\ ~threw
    /\ rnd.ret # <<>>
    /\ rnd.ret[1] \in 0..(Len(quotes) - 1)

\* the selector returned the last index after more than one draw
RandomIndexInRangeWitness ==
  /\ pc = "done"
  /\ Len(quotes) > 1
  /\ rnd.attempts > 1
  /\ rnd.ret = <<Len(quotes) - 1>>

\* C10: the random selector makes at most 20 draws, is never still drawing
\* after the 20th, and every call returns.
RandomTerminates ==
  /\ [](rnd.attempts <= MaxAttempts /\ (pc = "loop" => rnd.attempts < MaxAttempts))
  /\ <>(pc = "done")

\* every quote's text is the current text and the 20th draw was accepted
RandomTerminatesWitness ==
  /\ pc = "done"
  /\ Len(quotes) > 1
  /\ \A i \in 1..Len(quotes) : quotes[i].text = rnd.currentText
  /\ rnd.attempts = MaxAttempts
  /\ rnd.ret # <<>>


\* C11: for count > 1 the selector accepts the first draw whose text differs
\* from the current text, or else the 20th: while it is still drawing, the draw
\* just made (hence every earlier one) matched the current text; on return the
\* index is the last draw, and after fewer than 20 draws its text differs.
RandomAcceptsFirstDifferent ==
  Len(quotes) > 1 =>
    /\ (pc = "loop" /\ rnd.attempts > 0) =>
         /\ rnd.idx # <<>>
         /\ quotes[rnd.idx[1] + 1].text = rnd.currentText
    /\ pc = "done" =>
         /\ rnd.attempts \in 1..MaxAttempts
         /\ rnd.ret = rnd.idx
         /\ rnd.ret # <<>>
         /\ (rnd.attempts < MaxAttempts =>
               quotes[rnd.ret[1] + 1].text # rnd.currentText)

\* after some matching draws, a draw with a different text was accepted before the 20th
RandomAcceptsFirstDifferentWitness ==
  /\ pc = "done"
  /\ Len(quotes) > 1
  /\ rnd.attempts \in 3..(MaxAttempts - 1)
  /\ rnd.ret # <<>>
  /\ quotes[rnd.ret[1] + 1].text # rnd.currentText
  /\ \E i \in 1..Len(quotes) : quotes[i].text = rnd.currentText


\* C12: the label is "random" and the daily flag false exactly when a shuffle
\* trigger has been handled since load; before that the page is in daily mode;
\* once the mode is random no later step returns it to daily.
ModeReflectsShuffle ==
  /\ [](/\ (dailyLabel = "random") <=> called.random
        /\ isDaily <=> ~called.random
        /\ ~called.random => dailyLabel = "daily")
  /\ [][~isDaily => (~isDaily' /\ dailyLabel' = "random")]_vars

\* a shuffle on two quotes has been rendered and made visible, the mode still random
ModeReflectsShuffleWitness ==
  /\ Len(quotes) = 2
  /\ called.daily
  /\ called.random
  /\ dailyLabel = "random"
  /\ ~isDaily
  /\ Pending = 0
  /\ textVisible


\* a step in which the oldest timer's callback swaps in its quote
SwapStep == pc = "idle" /\ timers # <<>> /\ Head(timers) # <<>> /\ timers' = Tail(timers)

\* "song — artist", and " (album)" after it
CreditBase(q) == q.song \o <<32, 8212, 32>> \o q.artist
CreditWithAlbum(q) == CreditBase(q) \o <<32, 40>> \o q.album[1] \o <<41>>

\* the credit of quote q as the album rule gives it
CreditOf(q) ==
  IF q.album \in {<<>>, <<(<<>>)>>, <<Single>>} THEN CreditBase(q) ELSE CreditWithAlbum(q)

\* C13: the rendered credit is "song — artist", followed by " (album)" exactly
\* when the album is present, non-empty and not "Single".
CreditFollowsAlbumRule ==
  [][SwapStep =>
       LET q == Head(timers)[1]
       IN CASE q.album = <<>> -> quoteCredit' = CreditBase(q)
            [] q.album = <<(<<>>)>> -> quoteCredit' = CreditBase(q)
            [] q.album = <<Single>> -> quoteCredit' = CreditBase(q)
            [] OTHER -> quoteCredit' = CreditWithAlbum(q)]_vars

\* the collection holds a "Single" quote and the page shows "S — A (X)"
CreditFollowsAlbumRuleWitness ==
  /\ \E i \in 1..Len(quotes) : quotes[i].album = <<Single>>
  /\ quoteCredit = <<83, 32, 8212, 32, 65, 32, 40, 88, 41>>
  /\ quoteText = <<8220, 97, 8221>>


\* C14: a key event runs the shuffle path if and only if the key is space and
\* the target is the document body; any other key event changes no state.
KeyShufflesOnlyOnSpaceAtBody ==
  [][\A key \in Keys, target \in Targets :
       KeyDown(key, target) =>
         IF key = " " /\ target = "body"
         THEN ~isDaily' /\ dailyLabel' = "random" /\ called'.random
         ELSE UNCHANGED vars]_vars

\* on an empty collection (no click listener) a key event has run the shuffle path
KeyShufflesOnlyOnSpaceAtBodyWitness ==
  /\ quotes = <<>>
  /\ ~clickBound
  /\ ~isDaily
  /\ pc = "idle"
  /\ textVisible


\* C15: when a delayed callback swaps in text and credit, neither region is
\* marked visible; a region becomes visible again only by a frame callback,
\* which its swap has scheduled.
ClearBeforeSet ==
  [][/\ SwapStep => (~textVisible /\ ~creditVisible)
     /\ (quotes # <<>> /\ ((~textVisible /\ textVisible') \/ (~creditVisible /\ creditVisible')))
          => (frames > 0 /\ frames' = frames - 1 /\ timers' = timers)]_vars


\* C16: once no callback is pending, the displayed text and credit are those
\* of the quote the most recent trigger selected (its callback fired last).
LastWriteWins ==
  (pc = "idle" /\ Pending = 0 /\ selected # <<>>) =>
    /\ quoteText = <<8220>> \o selected[1].text \o <<8221>>
    /\ quoteCredit = CreditOf(selected[1])

\* all callbacks have fired after a shuffle that selected the second of two
\* quotes with different texts
LastWriteWinsWitness ==
  /\ pc = "idle"
  /\ Pending = 0
  /\ ~isDaily
  /\ Len(quotes) = 2
  /\ quotes[1].text # quotes[2].text
  /\ selected = <<quotes[2]>>
  /\ quoteText = <<8220>> \o quotes[2].text \o <<8221>>


\* the texts of the collection are pairwise distinct
DistinctTexts == \A i, j \in 1..Len(quotes) : quotes[i].text = quotes[j].text => i = j

\* the step in which a shuffle's selector returns, after draw number rnd.attempts + 1,
\* and displayQuote schedules the quote
ShuffleRenders == pc = "draw" /\ pc' = "idle" /\ ~threw' /\ selected' # <<>>

\* C17: on more than one quote with pairwise distinct texts, a shuffle whose
\* selector accepted a draw before the 20th renders a quote whose text differs
\* from that of the quote rendered immediately before it.
ShuffleAvoidsRepeat ==
  [][(/\ ShuffleRenders
      /\ Len(quotes) > 1
      /\ DistinctTexts
      /\ rnd.attempts + 1 < MaxAttempts
      /\ selected # <<>>)
     => selected'[1].text # selected[1].text]_vars


\* C18: a call of the daily selector or of the random selector leaves the mode
\* flag, the mode label, the displayed text and credit, the visibility marks
\* and the pending callbacks unchanged (and the collection with them).
SelectorsChangeNothing ==
  [][(DailyCall \/ RandomCall \/ RandomLoop) =>
       UNCHANGED <<modeVars, domVars, queueVars, quotes, clickBound, selected>>]_vars

\* both selectors have returned, the random one after several draws
SelectorsChangeNothingWitness ==
  /\ hOut # <<>>
  /\ pc = "done"
  /\ rnd.attempts > 1
  /\ called.daily
  /\ called.random
  /\ isDaily
  /\ dailyLabel = "daily"
  /\ Pending = 0


\* no handler is running and no callback is pending
Settled == pc = "idle" /\ Pending = 0

\* a step that starts a handler's draws or schedules a timer: a load or a shuffle trigger
Trigger == pc' = "draw" \/ Len(timers') > Len(timers)

\* C19: on a non-empty collection, whenever every scheduled callback has fired,
\* both regions are visible and show the text and credit of one quote of the
\* collection; and once the page has loaded and triggers stop, every scheduled
\* callback does fire.
SettledShowsOneQuote ==
  /\ []((quotes # <<>> /\ Settled) =>
          /\ textVisible
          /\ creditVisible
          /\ \E i \in 1..Len(quotes) :
               /\ quoteText = <<8220>> \o quotes[i].text \o <<8221>>
               /\ quoteCredit = CreditOf(quotes[i]))
  /\ ((<>(pc # "start")) /\ <>[][~Trigger]_vars) => <>[]Settled

\* after a shuffle, all callbacks have fired and the second of two different
\* quotes is shown with its album
SettledShowsOneQuoteWitness ==
  /\ Settled
  /\ ~isDaily
  /\ Len(quotes) = 2
  /\ quotes[1] # quotes[2]
  /\ textVisible
  /\ creditVisible
  /\ quoteCredit = CreditWithAlbum(quotes[2])

====
